---- MODULE Spec2Model ----
(***************************************************************************)
(* BusTracker (src/app.py): a Flask endpoint that fetches a GTFS-realtime  *)
(* vehicle-position feed, converts it to a GeoJSON FeatureCollection,      *)
(* overwrites a snapshot file with it and returns it.                       *)
(*                                                                         *)
(* Three specifications:                                                   *)
(*   SpecT     the conversion loop of fetch_and_convert_to_geojson applied *)
(*             to every decoded message / criterion of the bounded sets;   *)
(*   Spec      one worker serving requests one after another;              *)
(*   SpecConc  two workers serving one request each, steps interleaved.    *)
(*                                                                         *)
(* An optional string (Python None or a str) is a sequence of length 0 or  *)
(* 1.  Floats are integers.  A file is a sequence of chunks, one chunk per *)
(* piece that the file object opened at line 75 writes out.                *)
(***************************************************************************)
EXTENDS Integers, Sequences, FiniteSets, TLC

VARIABLES
    t_pc, t_feed, t_target, t_out,
    pc, args, target_bus, content, feed, exc, geojson_data,
    offset, wrote, response, gets, steps, file, failed_before

tvars == <<t_pc, t_feed, t_target, t_out>>
rvars == <<pc, args, target_bus, content, feed, exc, geojson_data,
           offset, wrote, response, gets, steps, file, failed_before>>
vars == <<t_pc, t_feed, t_target, t_out,
          pc, args, target_bus, content, feed, exc, geojson_data,
          offset, wrote, response, gets, steps, file, failed_before>>

(* ------------------------------ bounds -------------------------------- *)
\* longest entity list of a decoded message
MaxEntities == 2
\* cap of the counter of consecutive failed requests
MaxFailedBefore == 1

(* --------------------------- program constants ------------------------- *)
\* line 82
HTTP_OK == 200

(* ------------------------------ the feed ------------------------------- *)
None == <<>>
Some(s) == <<s>>

\* entity ids are unique within one feed message: the i-th entity is EntityIds[i]
EntityIds == <<"E1", "E2", "E3", "E4">>
VehicleIds == {"", "B1"}
RouteIds == {"", "R1"}
Timestamps == {1700000000}

Position == [latitude |-> 44, longitude |-> -63, bearing |-> 90]
\* an unset protobuf field reads as its default value
DefaultPosition == [latitude |-> 0, longitude |-> 0, bearing |-> 0]
DefaultVehicleDescriptor == [has_id |-> FALSE, id |-> ""]
DefaultTripDescriptor == [has_route_id |-> FALSE, route_id |-> ""]

VehicleDescriptors ==
    {DefaultVehicleDescriptor} \cup {[has_id |-> TRUE, id |-> v] : v \in VehicleIds}

TripDescriptors ==
    {DefaultTripDescriptor} \cup {[has_route_id |-> TRUE, route_id |-> r] : r \in RouteIds}

VehiclePosition(hp, hv, d, ht, t) ==
    [has_position |-> hp, position |-> IF hp THEN Position ELSE DefaultPosition,
     has_vehicle |-> hv, vehicle |-> IF hv THEN d ELSE DefaultVehicleDescriptor,
     has_trip |-> ht, trip |-> IF ht THEN t ELSE DefaultTripDescriptor]

VehiclePositions ==
    {VehiclePosition(hp, hv, d, ht, t) :
        hp \in BOOLEAN, hv \in BOOLEAN, d \in VehicleDescriptors,
        ht \in BOOLEAN, t \in TripDescriptors}

DefaultVehiclePosition ==
    VehiclePosition(FALSE, FALSE, DefaultVehicleDescriptor, FALSE, DefaultTripDescriptor)

\* what an entity carries besides its id: no vehicle record, or one
Payloads ==
    {[has_vehicle |-> FALSE, vehicle |-> DefaultVehiclePosition]}
    \cup {[has_vehicle |-> TRUE, vehicle |-> v] : v \in VehiclePositions}

\* the payloads of the feeds served to the endpoint specifications: an entity
\* without a vehicle record, a fully populated one, and one whose vehicle id is
\* set to the empty string and that has no trip
ServedPayloads ==
    {[has_vehicle |-> FALSE, vehicle |-> DefaultVehiclePosition],
     [has_vehicle |-> TRUE,
      vehicle |-> VehiclePosition(TRUE, TRUE, [has_id |-> TRUE, id |-> "B1"],
                                  TRUE, [has_route_id |-> TRUE, route_id |-> "R1"])],
     [has_vehicle |-> TRUE,
      vehicle |-> VehiclePosition(TRUE, TRUE, [has_id |-> TRUE, id |-> ""],
                                  FALSE, DefaultTripDescriptor)]}

FeedEntity(i, p) == [id |-> EntityIds[i], has_vehicle |-> p.has_vehicle, vehicle |-> p.vehicle]

EntityLists(payloads) ==
    UNION {{[i \in 1..k |-> FeedEntity(i, f[i])] : f \in [1..k -> payloads]} : k \in 0..MaxEntities}

FeedMessages(payloads) ==
    {[header |-> [timestamp |-> ts], entity |-> es] :
        ts \in Timestamps, es \in EntityLists(payloads)}

\* line 25: a fresh, empty message
FeedMessage == [header |-> [timestamp |-> 0], entity |-> <<>>]

\* the filter criteria: None, the empty string, a vehicle id, a route id, an
\* entity id, the route sentinel
Targets == {None, Some(""), Some("B1"), Some("R1"), Some("E1"), Some("N/A")}

(* -------------------- fetch_and_convert_to_geojson --------------------- *)
\* line 40
bus_id(entity) ==
    IF entity.vehicle.has_vehicle /\ entity.vehicle.vehicle.has_id
    THEN entity.vehicle.vehicle.id
    ELSE entity.id

\* line 41
route_id(entity) ==
    IF entity.vehicle.has_trip /\ entity.vehicle.trip.has_route_id
    THEN entity.vehicle.trip.route_id
    ELSE "N/A"

\* lines 36, 38
HasPosition(entity) == entity.has_vehicle /\ entity.vehicle.has_position

FilterByBusOnly(entity, target_bus_id) ==
    \/ target_bus_id = None
    \/ Some(bus_id(entity)) = target_bus_id

\* line 44
Selected(entity, target_bus_id) ==
    \/ target_bus_id = None
    \/ Some(bus_id(entity)) = target_bus_id
    \/ Some(route_id(entity)) = target_bus_id

\* lines 45-57
Feature(entity, timestamp) ==
    [type |-> "Feature",
     properties |-> [id |-> bus_id(entity),
                     route_id |-> route_id(entity),
                     bearing |-> entity.vehicle.position.bearing,
                     timestamp |-> timestamp],
     geometry |-> [type |-> "Point",
                   coordinates |-> <<entity.vehicle.position.longitude,
                                     entity.vehicle.position.latitude>>]]

Prepend(features, feature) == <<feature>> \o features

\* line 58
AppendFeature(features, feature) == Append(features, feature)

\* lines 34-58: the loop over feed.entity, from entity number i on
RECURSIVE ConvertFrom(_, _, _, _)
ConvertFrom(msg, i, target_bus_id, features) ==
    IF i > Len(msg.entity) THEN features
    ELSE LET entity == msg.entity[i]
         IN  IF HasPosition(entity) /\ Selected(entity, target_bus_id)
             THEN ConvertFrom(msg, i + 1, target_bus_id,
                              AppendFeature(features, Feature(entity, msg.header.timestamp)))
             ELSE ConvertFrom(msg, i + 1, target_bus_id, features)

\* lines 34-60
Convert(msg, target_bus_id) ==
    [type |-> "FeatureCollection", features |-> ConvertFrom(msg, 1, target_bus_id, <<>>)]

\* line 32
EmptyCollection == [type |-> "FeatureCollection", features |-> <<>>]

(* ---------------------- SpecT: the conversion alone -------------------- *)
InitT ==
    /\ t_pc = "start"
    /\ t_feed \in FeedMessages(Payloads)
    /\ t_target \in Targets
    /\ t_out = EmptyCollection
    /\ pc = <<>> /\ args = <<>> /\ target_bus = <<>> /\ content = <<>>
    /\ feed = <<>> /\ exc = <<>> /\ geojson_data = <<>> /\ offset = <<>>
    /\ wrote = <<>> /\ response = <<>> /\ gets = <<>> /\ steps = <<>>
    /\ file = <<>> /\ failed_before = 0

Transform ==
    /\ t_pc = "start"
    /\ t_out' = Convert(t_feed, t_target)
    /\ t_pc' = "done"
    /\ UNCHANGED <<t_feed, t_target>>
    /\ UNCHANGED rvars

NextT == Transform

SpecT == InitT /\ [][NextT]_vars

(* --------------------------- the endpoint ------------------------------ *)
\* requests.exceptions.RequestException and the subclasses requests.get and
\* raise_for_status raise
RequestException == {"Timeout", "ConnectionError", "HTTPError"}

CatchesAllButHTTPError(e) == e \in {"Timeout", "ConnectionError"}

\* line 30: the only except clause of fetch_and_convert_to_geojson
CaughtByExcept(e) == e \in RequestException

\* line 28
raise_for_status(status) == IF 400 <= status /\ status < 600 THEN "HTTPError" ELSE "none"

\* bytes that are no FeedMessage
Malformed == [ok |-> FALSE, msg |-> FeedMessage]

Contents == {Malformed} \cup {[ok |-> TRUE, msg |-> m] : m \in FeedMessages(ServedPayloads)}

\* what requests.get can come back with (line 27): an exception, or a response
\* with its final status (redirects are followed) and body
GetOutcomes ==
    {[exc |-> e, status |-> 0, content |-> Malformed] : e \in {"Timeout", "ConnectionError"}}
    \cup {[exc |-> "none", status |-> st, content |-> Malformed] : st \in {404, 503}}
    \cup {[exc |-> "none", status |-> HTTP_OK, content |-> c] : c \in Contents}

\* the query string: no 'bus' key, or one with a value (the empty one included)
QueryArgs == {None} \cup {Some(v) : v \in {"", "R1"}}

ArgsGetFalsyIsNone(a) == IF a = None \/ a = Some("") THEN None ELSE a

\* line 68: request.args.get('bus', None)
ArgsGet(a) == IF a = None THEN None ELSE a

Chunk(text) == [text |-> text, feature |-> <<>>]
FeatureChunk(f) == [text |-> "feature", feature |-> <<f>>]
\* a position of the file that no write filled
Hole == Chunk("NUL")

\* line 76: the pieces json.dump(geojson_data, f, indent=4) writes
Serialize(c) ==
    <<Chunk("{"), Chunk("\"type\": \"FeatureCollection\","), Chunk("\"features\": [")>>
    \o [j \in DOMAIN c.features |-> FeatureChunk(c.features[j])]
    \o <<Chunk("]"), Chunk("}")>>

\* a write() at file position off of a descriptor opened without O_APPEND
WriteAt(f, off, chunk) ==
    IF off < Len(f)
    THEN [f EXCEPT ![off + 1] = chunk]
    ELSE f \o [i \in 1..(off - Len(f)) |-> Hole] \o <<chunk>>

NoResponse == [status |-> 0, body |-> None]

Min(a, b) == IF a < b THEN a ELSE b

InitFor(P) ==
    /\ t_pc = "off" /\ t_feed = FeedMessage /\ t_target = None /\ t_out = EmptyCollection
    /\ pc = [p \in P |-> "idle"]
    /\ args = [p \in P |-> None]
    /\ target_bus = [p \in P |-> None]
    /\ content = [p \in P |-> None]
    /\ feed = [p \in P |-> None]
    /\ exc = [p \in P |-> "none"]
    /\ geojson_data = [p \in P |-> None]
    /\ offset = [p \in P |-> 0]
    /\ wrote = [p \in P |-> "no"]
    /\ response = [p \in P |-> NoResponse]
    /\ gets = [p \in P |-> 0]
    /\ steps = [p \in P |-> {}]
    /\ file = <<>>
    /\ failed_before = 0

\* lines 68-70, 25: a request arrives; the handler reads 'bus' and calls
\* fetch_and_convert_to_geojson, which creates its FeedMessage
Request(p) ==
    /\ pc[p] = "idle"
    /\ \E a \in QueryArgs :
          /\ args' = [args EXCEPT ![p] = a]
          /\ target_bus' = [target_bus EXCEPT ![p] = ArgsGet(a)]
    /\ feed' = [feed EXCEPT ![p] = Some(FeedMessage)]
    /\ pc' = [pc EXCEPT ![p] = "get"]
    /\ UNCHANGED <<content, exc, geojson_data, offset, wrote, response,
                   gets, steps, file, failed_before>>
    /\ UNCHANGED tvars

HttpGetRetrying(p) ==
    /\ pc[p] = "get"
    /\ gets' = [gets EXCEPT ![p] = @ + 1]
    /\ steps' = [steps EXCEPT ![p] = @ \cup {"get"}]
    /\ \E o \in GetOutcomes :
          LET e == IF o.exc # "none" THEN o.exc ELSE raise_for_status(o.status)
          IN  IF e = "none"
              THEN /\ content' = [content EXCEPT ![p] = Some(o.content)]
                   /\ pc' = [pc EXCEPT ![p] = "parse"]
                   /\ exc' = exc
              ELSE /\ exc' = [exc EXCEPT ![p] = e]
                   /\ pc' = [pc EXCEPT ![p] = IF gets[p] = 0 THEN "get" ELSE "raised"]
                   /\ content' = content
    /\ UNCHANGED <<args, target_bus, feed, geojson_data, offset, wrote,
                   response, file, failed_before>>
    /\ UNCHANGED tvars

\* lines 27-28: the GET and raise_for_status
HttpGet(p) ==
    /\ pc[p] = "get"
    /\ gets' = [gets EXCEPT ![p] = @ + 1]
    /\ steps' = [steps EXCEPT ![p] = @ \cup {"get"}]
    /\ \E o \in GetOutcomes :
          LET e == IF o.exc # "none" THEN o.exc ELSE raise_for_status(o.status)
          IN  IF e = "none"
              THEN /\ content' = [content EXCEPT ![p] = Some(o.content)]
                   /\ pc' = [pc EXCEPT ![p] = "parse"]
                   /\ exc' = exc
              ELSE /\ exc' = [exc EXCEPT ![p] = e]
                   /\ pc' = [pc EXCEPT ![p] = "raised"]
                   /\ content' = content
    /\ UNCHANGED <<args, target_bus, feed, geojson_data, offset, wrote,
                   response, file, failed_before>>
    /\ UNCHANGED tvars

\* line 29: feed.ParseFromString(response.content); malformed bytes raise
\* google.protobuf.message.DecodeError
ParseFromString(p) ==
    /\ pc[p] = "parse"
    /\ steps' = [steps EXCEPT ![p] = @ \cup {"parse"}]
    /\ IF content[p][1].ok
       THEN /\ feed' = [feed EXCEPT ![p] = Some(content[p][1].msg)]
            /\ pc' = [pc EXCEPT ![p] = "convert"]
            /\ exc' = exc
       ELSE /\ exc' = [exc EXCEPT ![p] = "DecodeError"]
            /\ pc' = [pc EXCEPT ![p] = "raised"]
            /\ feed' = feed
    /\ UNCHANGED <<args, target_bus, content, geojson_data, offset, wrote,
                   response, gets, file, failed_before>>
    /\ UNCHANGED tvars

\* lines 30-32: an exception raised in the try block is caught if it is a
\* RequestException, and the empty collection returned; any other exception
\* leaves fetch_and_convert_to_geojson and get_geojson_data (line 70 is in no
\* try block) and the framework answers 500 Internal Server Error
Except(p) ==
    /\ pc[p] = "raised"
    /\ IF CaughtByExcept(exc[p])
       THEN /\ geojson_data' = [geojson_data EXCEPT ![p] = Some(EmptyCollection)]
            /\ pc' = [pc EXCEPT ![p] = "open"]
            /\ response' = response
       ELSE /\ response' = [response EXCEPT ![p] =
                               [status |-> 500, body |-> None]]
            /\ pc' = [pc EXCEPT ![p] = "done"]
            /\ geojson_data' = geojson_data
    /\ UNCHANGED <<args, target_bus, content, feed, exc, offset, wrote,
                   gets, steps, file, failed_before>>
    /\ UNCHANGED tvars

\* lines 34-60: the loop over the entities and the return
BuildFeatures(p) ==
    /\ pc[p] = "convert"
    /\ steps' = [steps EXCEPT ![p] = @ \cup {"convert"}]
    /\ geojson_data' = [geojson_data EXCEPT ![p] = Some(Convert(feed[p][1], target_bus[p]))]
    /\ pc' = [pc EXCEPT ![p] = "open"]
    /\ UNCHANGED <<args, target_bus, content, feed, exc, offset, wrote,
                   response, gets, file, failed_before>>
    /\ UNCHANGED tvars

OpenAppending(p) ==
    /\ pc[p] = "open"
    /\ steps' = [steps EXCEPT ![p] = @ \cup {"open"}]
    /\ \/ /\ file' = file
          /\ offset' = [offset EXCEPT ![p] = Len(file)]
          /\ pc' = [pc EXCEPT ![p] = "write"]
          /\ wrote' = wrote
       \/ /\ wrote' = [wrote EXCEPT ![p] = "failed"]
          /\ pc' = [pc EXCEPT ![p] = "respond"]
          /\ UNCHANGED <<file, offset>>
    /\ UNCHANGED <<args, target_bus, content, feed, exc, geojson_data,
                   response, gets, failed_before>>
    /\ UNCHANGED tvars

\* line 75: open(file_path, 'w') truncates the file and starts at position 0,
\* or raises an IOError, which line 78 catches
OpenFile(p) ==
    /\ pc[p] = "open"
    /\ steps' = [steps EXCEPT ![p] = @ \cup {"open"}]
    /\ \/ /\ file' = <<>>
          /\ offset' = [offset EXCEPT ![p] = 0]
          /\ pc' = [pc EXCEPT ![p] = "write"]
          /\ wrote' = wrote
       \/ /\ wrote' = [wrote EXCEPT ![p] = "failed"]
          /\ pc' = [pc EXCEPT ![p] = "respond"]
          /\ UNCHANGED <<file, offset>>
    /\ UNCHANGED <<args, target_bus, content, feed, exc, geojson_data,
                   response, gets, failed_before>>
    /\ UNCHANGED tvars

\* line 76: one write of json.dump, at this descriptor's own position; or an
\* IOError, which closes the file (with-statement) and is caught by line 78
WriteChunk(p) ==
    /\ pc[p] = "write"
    /\ offset[p] < Len(Serialize(geojson_data[p][1]))
    /\ steps' = [steps EXCEPT ![p] = @ \cup {"write"}]
    /\ \/ /\ file' = WriteAt(file, offset[p], Serialize(geojson_data[p][1])[offset[p] + 1])
          /\ offset' = [offset EXCEPT ![p] = @ + 1]
          /\ UNCHANGED <<pc, wrote>>
       \/ /\ wrote' = [wrote EXCEPT ![p] = "failed"]
          /\ pc' = [pc EXCEPT ![p] = "respond"]
          /\ UNCHANGED <<file, offset>>
    /\ UNCHANGED <<args, target_bus, content, feed, exc, geojson_data,
                   response, gets, failed_before>>
    /\ UNCHANGED tvars

\* lines 75-77: json.dump has written everything; the with-statement closes the file
CloseFile(p) ==
    /\ pc[p] = "write"
    /\ offset[p] = Len(Serialize(geojson_data[p][1]))
    /\ wrote' = [wrote EXCEPT ![p] = "ok"]
    /\ pc' = [pc EXCEPT ![p] = "respond"]
    /\ UNCHANGED <<args, target_bus, content, feed, exc, geojson_data,
                   offset, response, gets, steps, file, failed_before>>
    /\ UNCHANGED tvars

\* line 82
Respond(p) ==
    /\ pc[p] = "respond"
    /\ steps' = [steps EXCEPT ![p] = @ \cup {"respond"}]
    /\ response' = [response EXCEPT ![p] = [status |-> HTTP_OK, body |-> geojson_data[p]]]
    /\ pc' = [pc EXCEPT ![p] = "done"]
    /\ UNCHANGED <<args, target_bus, content, feed, exc, geojson_data,
                   offset, wrote, gets, file, failed_before>>
    /\ UNCHANGED tvars

\* the request is over and the worker takes the next one; nothing of the
\* request is kept but the snapshot file. failed_before counts the requests in
\* a row, up to this one, whose fetch or decoding failed.
Finish(p) ==
    /\ pc[p] = "done"
    /\ failed_before' = IF exc[p] # "none" THEN Min(failed_before + 1, MaxFailedBefore) ELSE 0
    /\ pc' = [pc EXCEPT ![p] = "idle"]
    /\ args' = [args EXCEPT ![p] = None]
    /\ target_bus' = [target_bus EXCEPT ![p] = None]
    /\ content' = [content EXCEPT ![p] = None]
    /\ feed' = [feed EXCEPT ![p] = None]
    /\ exc' = [exc EXCEPT ![p] = "none"]
    /\ geojson_data' = [geojson_data EXCEPT ![p] = None]
    /\ offset' = [offset EXCEPT ![p] = 0]
    /\ wrote' = [wrote EXCEPT ![p] = "no"]
    /\ response' = [response EXCEPT ![p] = NoResponse]
    /\ gets' = [gets EXCEPT ![p] = 0]
    /\ steps' = [steps EXCEPT ![p] = {}]
    /\ UNCHANGED <<file>>
    /\ UNCHANGED tvars

\* the worker of the sequential specification, and the two of the concurrent one
SeqWorkers == {1}
ConcWorkers == {1, 2}
\* the workers of the specification at hand
Workers == DOMAIN pc

\* one worker, request after request
Init == InitFor(SeqWorkers)
Next ==
    \/ \E p \in SeqWorkers : Request(p)
    \/ \E p \in SeqWorkers : HttpGet(p)
    \/ \E p \in SeqWorkers : ParseFromString(p)
    \/ \E p \in SeqWorkers : Except(p)
    \/ \E p \in SeqWorkers : BuildFeatures(p)
    \/ \E p \in SeqWorkers : OpenFile(p)
    \/ \E p \in SeqWorkers : WriteChunk(p)
    \/ \E p \in SeqWorkers : CloseFile(p)
    \/ \E p \in SeqWorkers : Respond(p)
    \/ \E p \in SeqWorkers : Finish(p)
Spec == Init /\ [][Next]_vars

\* two workers, one request each, their steps interleaved
InitConc == InitFor(ConcWorkers)
NextConc ==
    \/ \E p \in ConcWorkers : Request(p)
    \/ \E p \in ConcWorkers : HttpGet(p)
    \/ \E p \in ConcWorkers : ParseFromString(p)
    \/ \E p \in ConcWorkers : Except(p)
    \/ \E p \in ConcWorkers : BuildFeatures(p)
    \/ \E p \in ConcWorkers : OpenFile(p)
    \/ \E p \in ConcWorkers : WriteChunk(p)
    \/ \E p \in ConcWorkers : CloseFile(p)
    \/ \E p \in ConcWorkers : Respond(p)
SpecConc == InitConc /\ [][NextConc]_vars

(* ------------------------- claims on SpecT ----------------------------- *)
TsT == t_feed.header.timestamp
PositionedT == {i \in DOMAIN t_feed.entity : HasPosition(t_feed.entity[i])}

\* the entity's effective id or its route id (sentinel included) equals the criterion
MatchesT(i) ==
    \/ Some(bus_id(t_feed.entity[i])) = t_target
    \/ Some(route_id(t_feed.entity[i])) = t_target

EligibleT == {i \in PositionedT : t_target = None \/ MatchesT(i)}

\* C4: filtering is exact match with OR semantics. Every feature of the output
\* has effective id or route id equal to the supplied criterion; every
\* position-bearing entity whose effective id or route id equals the criterion
\* appears in the output (all of them when no criterion is supplied), and
\* nothing else does.
C4_FilterExactOr ==
    t_pc = "done" =>
        /\ t_target # None =>
              \A j \in DOMAIN t_out.features :
                  \/ Some(t_out.features[j].properties.id) = t_target
                  \/ Some(t_out.features[j].properties.route_id) = t_target
        /\ \A i \in EligibleT :
              \E j \in DOMAIN t_out.features :
                  t_out.features[j] = Feature(t_feed.entity[i], TsT)
        /\ Len(t_out.features) = Cardinality(EligibleT)

\* a criterion that selects one entity by its route id only (its effective id
\* differs) and rejects another position-bearing entity
C4_Witness ==
    /\ t_pc = "done"
    /\ t_target # None
    /\ Len(t_out.features) = 1
    /\ Some(t_out.features[1].properties.id) # t_target
    /\ Some(t_out.features[1].properties.route_id) = t_target
    /\ Cardinality(PositionedT) = 2

\* C5: when every entity carries a non-empty entity id, every emitted feature
\* has a non-empty effective id (the vehicle id when set and non-empty, the
\* entity id otherwise).
C5_EffectiveIdNonEmpty ==
    (t_pc = "done" /\ \A i \in DOMAIN t_feed.entity : t_feed.entity[i].id # "") =>
        \A j \in DOMAIN t_out.features : t_out.features[j].properties.id # ""

\* C9: the features are an order-preserving subsequence of the position-bearing
\* entities: some strictly increasing map sends each feature to a
\* position-bearing entity it is the feature of, so there are at most as many
\* features as entities with a position.
C9_OrderedSubsequence ==
    t_pc = "done" =>
        /\ Len(t_out.features) <= Cardinality(PositionedT)
        /\ \E g \in [DOMAIN t_out.features -> DOMAIN t_feed.entity] :
              /\ \A j, k \in DOMAIN t_out.features : j < k => g[j] < g[k]
              /\ \A j \in DOMAIN t_out.features :
                    /\ g[j] \in PositionedT
                    /\ t_out.features[j] = Feature(t_feed.entity[g[j]], TsT)

\* two different features in the order of their entities
C9_Witness ==
    /\ t_pc = "done"
    /\ Len(t_out.features) = 2
    /\ t_out.features[1] # t_out.features[2]
    /\ t_out.features[1] = Feature(t_feed.entity[1], TsT)

(* ---------------------- claims on Spec and SpecConc -------------------- *)
Returned(p) == pc[p] = "done"
Answered200(p) == Returned(p) /\ response[p].status = HTTP_OK
FetchedOk(p) == content[p] # None /\ content[p][1].ok
PositionedOf(msg) == {i \in DOMAIN msg.entity : HasPosition(msg.entity[i])}

\* C1: every request ends with status 200 and a FeatureCollection body,
\* whatever errors (feed unavailable, undecodable bytes, failed file write)
\* happen during it.
C1_Always200 ==
    \A p \in Workers :
        Returned(p) =>
            /\ response[p].status = HTTP_OK
            /\ response[p].body # None
            /\ response[p].body[1].type = "FeatureCollection"

\* C2: when the GET succeeds but the bytes cannot be decoded,
\* fetch_and_convert_to_geojson raises nothing to its caller and returns the
\* empty collection.
C2_DecodeFailureDegrades ==
    \A p \in Workers :
        (content[p] # None /\ ~content[p][1].ok /\ pc[p] \notin {"parse", "raised"}) =>
            /\ exc[p] # "DecodeError" \/ CaughtByExcept(exc[p])
            /\ geojson_data[p] = Some(EmptyCollection)

\* C3: on a transport failure (timeout, connection error, non-success status)
\* neither decoding nor conversion runs, fetch_and_convert_to_geojson returns
\* the empty collection whatever the criterion, and the endpoint answers 200
\* with it.
C3_TransportFailureDegrades ==
    \A p \in Workers :
        exc[p] \in RequestException =>
            /\ steps[p] \cap {"parse", "convert"} = {}
            /\ pc[p] # "raised" => geojson_data[p] = Some(EmptyCollection)
            /\ pc[p] \in {"raised", "open", "write", "respond", "done"}
            /\ Returned(p) => response[p] = [status |-> HTTP_OK, body |-> Some(EmptyCollection)]

\* a request with a criterion, answered after a non-success status of the feed
C3_Witness ==
    \E p \in Workers :
        /\ Returned(p)
        /\ exc[p] = "HTTPError"
        /\ target_bus[p] # None
        /\ response[p].status = HTTP_OK

\* C6: once two requests whose writes may overlap have both finished, the
\* snapshot file holds the complete serialization of one of them.
C6_LastWriterWins ==
    (\A p \in Workers : Returned(p) /\ wrote[p] = "ok") =>
        \E p \in Workers : file = Serialize(geojson_data[p][1])

\* C7: in a sequence of non-overlapping requests, the write happens after the
\* conversion and before the response, and when a response is returned after a
\* successful write the snapshot file holds exactly the collection of that
\* response.
C7_SnapshotIsLastResponse ==
    \A p \in Workers :
        /\ pc[p] \in {"open", "write", "respond"} =>
              geojson_data[p] # None /\ response[p] = NoResponse
        /\ Answered200(p) => "open" \in steps[p]
        /\ (Answered200(p) /\ wrote[p] = "ok") => file = Serialize(response[p].body[1])

\* a filtered collection, shorter than the unfiltered one, has been written and returned
C7_Witness ==
    \E p \in Workers :
        /\ Answered200(p)
        /\ wrote[p] = "ok"
        /\ FetchedOk(p)
        /\ Len(response[p].body[1].features) = 1
        /\ Cardinality(PositionedOf(content[p][1].msg)) = 2
        /\ file = Serialize(response[p].body[1])

\* C8: each request issues exactly one GET, and the response of a request whose
\* feed was reachable and decodable is the conversion of the content fetched in
\* that request under its criterion, whatever happened in earlier requests and
\* whatever the snapshot file holds.
C8_RequestsIndependent ==
    \A p \in Workers :
        /\ gets[p] <= 1
        /\ Returned(p) => gets[p] = 1
        /\ (Returned(p) /\ FetchedOk(p)) =>
              response[p] = [status |-> HTTP_OK,
                             body |-> Some(Convert(content[p][1].msg, args[p]))]

\* a request answered with features right after a failed request
C8_Witness ==
    \E p \in Workers :
        /\ Returned(p)
        /\ failed_before >= 1
        /\ FetchedOk(p)
        /\ response[p].body # None
        /\ Len(response[p].body[1].features) = 2
        /\ file # Serialize(response[p].body[1])

\* C10: the criterion is absent only when 'bus' is missing; an empty 'bus'
\* value is a criterion, so the answer holds exactly the features whose
\* effective id or route id is the empty string.
C10_EmptyBusIsCriterion ==
    \A p \in Workers :
        /\ pc[p] # "idle" => (target_bus[p] = None <=> args[p] = None)
        /\ (pc[p] # "idle" /\ args[p] # None) => target_bus[p] = args[p]
        /\ (Answered200(p) /\ args[p] = Some("")) =>
              \A j \in DOMAIN response[p].body[1].features :
                  \/ response[p].body[1].features[j].properties.id = ""
                  \/ response[p].body[1].features[j].properties.route_id = ""
        /\ (Answered200(p) /\ FetchedOk(p) /\ args[p] = Some("")) =>
              Len(response[p].body[1].features) =
                  Cardinality({i \in PositionedOf(content[p][1].msg) :
                                  \/ bus_id(content[p][1].msg.entity[i]) = ""
                                  \/ route_id(content[p][1].msg.entity[i]) = ""})

\* ?bus= answered with one of two position-bearing entities
C10_Witness ==
    \E p \in Workers :
        /\ Answered200(p)
        /\ args[p] = Some("")
        /\ FetchedOk(p)
        /\ Cardinality(PositionedOf(content[p][1].msg)) = 2
        /\ Len(response[p].body[1].features) = 1
        /\ response[p].body[1].features[1].properties.id = ""

====
